---- MODULE Spec2Model ----
(***************************************************************************)
(* Evaluation core of the templar template engine: Node::exec, the         *)
(* executor dispatch and the built-in operations set, if_then, concat and  *)
(* for_loop, evaluated against a stack of contexts (root context plus one  *)
(* ScopedContext overlay per active Scope node).                           *)
(*                                                                         *)
(* An evaluation is synchronous and single-threaded, so one call of        *)
(* Node::exec is one action.  The evaluator is a recursive operator that   *)
(* returns the produced Data, the context stack after the call and the     *)
(* ordered log of what the call did (node entered, node returned, context  *)
(* read, context write, scope entered, scope left).                        *)
(***************************************************************************)
EXTENDS Integers, Sequences, FiniteSets, TLC

VARIABLES node, ctx0, ctx, phase, res1, res2

vars == <<node, ctx0, ctx, phase, res1, res2>>

\* Length of the sequences and maps the contexts hold for loops to iterate.
MaxItems == 2
\* Largest number of children of the Expr, Array, Map and Concat nodes drawn.
MaxKids == 2

(***************************************************************************)
(* InnerData / Data: the value carrier.  A value is [k, v], k the variant. *)
(* A Map's v is the sequence of its entries in key order (BTreeMap).       *)
(***************************************************************************)
Unit == [k |-> "Unit", v |-> 0]
BoolD(b) == [k |-> "Bool", v |-> b]
IntD(i) == [k |-> "Int", v |-> i]
StrD(s) == [k |-> "Str", v |-> s]
SeqD(xs) == [k |-> "Seq", v |-> xs]
MapD(es) == [k |-> "Map", v |-> es]
ErrD(m) == [k |-> "Err", v |-> m]

\* A panic (index out of bounds) is no Data: it unwinds the whole call.
Panic == [k |-> "Panic", v |-> "index out of bounds"]

IsErr(d) == d.k = "Err"
IsPanic(d) == d.k = "Panic"

RenderFailure(m) == ErrD(m)

\* Data::empty
empty == Unit

\* Data::check: Ok -> Unit, Err -> that Err.
check(r) == IF r.ok THEN Unit ELSE r.err

\* Data::from_vec: the first Err of the vector if it has one, else a Seq.
from_vec(res) ==
    IF \E i \in 1..Len(res) : IsErr(res[i])
      THEN res[CHOOSE i \in 1..Len(res) :
                 IsErr(res[i]) /\ \A j \in 1..(i-1) : ~IsErr(res[j])]
      ELSE SeqD(res)

RECURSIVE JoinStr(_, _)
JoinStr(ss, sep) ==
    IF Len(ss) = 0 THEN ""
    ELSE IF Len(ss) = 1 THEN ss[1]
    ELSE ss[1] \o sep \o JoinStr(Tail(ss), sep)

\* Document's Display: the string a value renders to.
RECURSIVE to_string(_)
to_string(d) ==
    CASE d.k = "Unit" -> ""
      [] d.k = "Bool" -> IF d.v THEN "true" ELSE "false"
      [] d.k = "Int" -> ToString(d.v)
      [] d.k = "Str" -> d.v
      [] d.k = "Seq" -> "[" \o JoinStr([i \in 1..Len(d.v) |-> to_string(d.v[i])], ",") \o "]"
      [] d.k = "Map" -> "{" \o JoinStr([i \in 1..Len(d.v) |->
                             to_string(d.v[i].key) \o ":" \o to_string(d.v[i].value)], ",") \o "}"
      [] OTHER -> ""

(***************************************************************************)
(* Ordered maps.  Keys are ordered by variant, then by value; strings by   *)
(* their place in StrOrder (the identifiers the model uses, sorted).       *)
(***************************************************************************)
StrOrder == <<"a", "acc", "b", "flag", "items", "key", "mixed", "n", "none",
              "obj", "q", "value", "w", "x", "y", "z">>

StrRank(s) ==
    IF \E i \in 1..Len(StrOrder) : StrOrder[i] = s
      THEN CHOOSE i \in 1..Len(StrOrder) : StrOrder[i] = s
      ELSE Len(StrOrder) + 1

KeyRank(key) ==
    CASE key.k = "Unit" -> 0
      [] key.k = "Bool" -> IF key.v THEN 2 ELSE 1
      [] key.k = "Int" -> 10 + key.v
      [] key.k = "Str" -> 1000 + StrRank(key.v)
      [] OTHER -> 5000

HasKey(es, key) == \E i \in 1..Len(es) : es[i].key = key

ValueAt(es, key) == es[CHOOSE i \in 1..Len(es) : es[i].key = key].value

\* BTreeMap::insert: overwrite the entry of an equal key, else insert in order.
MapInsert(es, key, val) ==
    IF HasKey(es, key)
      THEN [i \in 1..Len(es) |-> IF es[i].key = key
                                   THEN [key |-> key, value |-> val] ELSE es[i]]
      ELSE LET before == SelectSeq(es, LAMBDA e : KeyRank(e.key) <= KeyRank(key))
               after == SelectSeq(es, LAMBDA e : KeyRank(e.key) > KeyRank(key))
           IN before \o <<[key |-> key, value |-> val]>> \o after

(***************************************************************************)
(* Context.  A store is a Map value; the context stack cs holds the root   *)
(* context's store first and one overlay per enclosing ScopedContext.      *)
(***************************************************************************)
EmptyStore == MapD(<<>>)

\* Resolve a path of keys inside one store, segment by segment.
RECURSIVE Lookup(_, _)
Lookup(d, keys) ==
    IF Len(keys) = 0 THEN [found |-> TRUE, v |-> d]
    ELSE IF d.k = "Map" /\ HasKey(d.v, keys[1])
      THEN Lookup(ValueAt(d.v, keys[1]), Tail(keys))
    ELSE [found |-> FALSE, v |-> Unit]

\* Insert or overwrite the leaf of a path inside one store, creating the
\* intermediate maps; fails when the path runs through a scalar or a sequence.
RECURSIVE SetIn(_, _, _)
SetIn(d, keys, val) ==
    IF Len(keys) = 0 THEN [ok |-> TRUE, d |-> val, err |-> Unit]
    ELSE IF d.k \in {"Map", "Unit"}
      THEN LET es == IF d.k = "Map" THEN d.v ELSE <<>>
               child == IF HasKey(es, keys[1]) THEN ValueAt(es, keys[1]) ELSE Unit
               r == SetIn(child, Tail(keys), val)
           IN IF r.ok
                THEN [ok |-> TRUE, d |-> MapD(MapInsert(es, keys[1], r.d)), err |-> Unit]
                ELSE [ok |-> FALSE, d |-> d, err |-> r.err]
    ELSE [ok |-> FALSE, d |-> d, err |-> RenderFailure("cannot assign through non-map")]

PathKeys(path) == [i \in 1..Len(path) |-> StrD(path[i])]

\* Context::get_path: the innermost overlay that holds the path answers,
\* else its parent; Unit when no context holds it.
RECURSIVE get_path(_, _)
get_path(cs, keys) ==
    IF Len(cs) = 0 THEN Unit
    ELSE LET r == Lookup(cs[Len(cs)], keys)
         IN IF r.found THEN r.v ELSE get_path(SubSeq(cs, 1, Len(cs) - 1), keys)

\* Context::set_path: writes go to the innermost context only.
set_path(cs, keys, val) ==
    LET r == SetIn(cs[Len(cs)], keys, val)
    IN [ok |-> r.ok, err |-> r.err,
        cs |-> IF r.ok THEN [cs EXCEPT ![Len(cs)] = r.d] ELSE cs]

\* ScopedContext::new: a fresh empty overlay whose parent is the given context.
ScopedContext_new(cs) == Append(cs, EmptyStore)


(***************************************************************************)
(* Node: [tag, name, d, path, keys, kids].  tag is the variant; name the   *)
(* operation of an Operation node; d the literal of a Data node; path the  *)
(* segments of a Value node; keys the keys of a Map node, in key order,    *)
(* kids[i] being the node of keys[i]; kids the children of every other     *)
(* variant (the one child of a Scope).                                     *)
(***************************************************************************)
NData(d) == [tag |-> "Data", name |-> "", d |-> d, path |-> <<>>, keys |-> <<>>, kids |-> <<>>]
NValue(path) == [tag |-> "Value", name |-> "", d |-> Unit, path |-> path, keys |-> <<>>, kids |-> <<>>]
NExpr(kids) == [tag |-> "Expr", name |-> "", d |-> Unit, path |-> <<>>, keys |-> <<>>, kids |-> kids]
NArray(kids) == [tag |-> "Array", name |-> "", d |-> Unit, path |-> <<>>, keys |-> <<>>, kids |-> kids]
NMap(keys, kids) == [tag |-> "Map", name |-> "", d |-> Unit, path |-> <<>>, keys |-> keys, kids |-> kids]
NEmpty == [tag |-> "Empty", name |-> "", d |-> Unit, path |-> <<>>, keys |-> <<>>, kids |-> <<>>]

\* Node::into_scope
into_scope(n) == [tag |-> "Scope", name |-> "", d |-> Unit, path |-> <<>>, keys |-> <<>>, kids |-> <<n>>]

\* Operations::build
build(name, nodes) == [tag |-> "Operation", name |-> name, d |-> Unit, path |-> <<>>, keys |-> <<>>, kids |-> nodes]

\* The executor shape map_operations! binds each operation to.
ExecutorOf(name) ==
    CASE name \in {"Add", "Equals", "Set"} -> "Piped"
      [] name = "IfThen" -> "Conditional"
      [] name = "Concat" -> "Indeterminate"
      [] name = "ForLoop" -> "Loop"

\* ConditionalExecutor::metadata
ConditionalMin == 2
ConditionalMax == 3

(***************************************************************************)
(* The log of an evaluation.  at is the place of the acting node in the    *)
(* tree (the child indices from the root), cs the context stack when it    *)
(* acted (for a write and a return: after it), depth the stack's height.   *)
(***************************************************************************)
Ev(e, at, p, v, cs, ok) ==
    [e |-> e, at |-> at, p |-> p, v |-> v, cs |-> cs, depth |-> Len(cs), ok |-> ok]

Res(d, cs, log) == [d |-> d, cs |-> cs, log |-> log]

SetEv(at, keys, val, w) == Ev("set", at, keys, val, w.cs, w.ok)

RECURSIVE exec(_, _, _)
RECURSIVE render(_, _, _)

\* A result that ends the evaluation around it: an Err or a panic.
Failed(r) == IsPanic(r.d) \/ IsErr(r.d)

\* The result r of a step that followed the steps logged in log.
After(log, r) == Res(r.d, r.cs, log \o r.log)

\* a.iter().map(|n| n.exec(ctx)).collect(): every child is evaluated, in order.
RECURSIVE ExecFrom(_, _, _, _)
ExecFromJoin(r, rest) ==
    [ds |-> <<r.d>> \o rest.ds, cs |-> rest.cs, log |-> r.log \o rest.log,
     panic |-> rest.panic]

ExecFromStep(kids, i, at, r) ==
    IF IsPanic(r.d) THEN [ds |-> <<>>, cs |-> r.cs, log |-> r.log, panic |-> TRUE]
    ELSE ExecFromJoin(r, ExecFrom(kids, i + 1, r.cs, at))

ExecFrom(kids, i, cs, at) ==
    IF i > Len(kids) THEN [ds |-> <<>>, cs |-> cs, log |-> <<>>, panic |-> FALSE]
    ELSE ExecFromStep(kids, i, at, exec(kids[i], cs, at \o <<i>>))

\* Node::exec, Expr arm: what the collected results become.
ExprOf(all) ==
    IF all.panic THEN Res(Panic, all.cs, all.log)
    ELSE IF Len(all.ds) = 0 THEN Res(empty, all.cs, all.log)
    ELSE IF Len(all.ds) = 1 THEN Res(all.ds[1], all.cs, all.log)
    ELSE Res(from_vec(all.ds), all.cs, all.log)

\* Node::exec, Expr arm
ExecExpr(n, cs, at) == ExprOf(ExecFrom(n.kids, 1, cs, at))

\* Node::exec, Value arm
ValueOf(d, keys, cs, at) == Res(d, cs, <<Ev("get", at, keys, d, cs, TRUE)>>)

ExecValue(n, cs, at) == ValueOf(get_path(cs, PathKeys(n.path)), PathKeys(n.path), cs, at)

\* Node::exec, Scope arm: the local context is dropped when the child returns.
ScopeExit(cs, at, r) ==
    Res(r.d, SubSeq(r.cs, 1, Len(cs)),
        <<Ev("enter", at, <<>>, Unit, cs, TRUE)>> \o r.log
          \o <<Ev("exit", at, <<>>, Unit, SubSeq(r.cs, 1, Len(cs)), TRUE)>>)

\* ExecScope with the child run on the caller's context, no overlay made.
ExecScopeShared(n, cs, at) ==
    LET r == exec(n.kids[1], cs, at \o <<1>>)
    IN Res(r.d, r.cs,
           <<Ev("enter", at, <<>>, Unit, cs, TRUE)>> \o r.log
             \o <<Ev("exit", at, <<>>, Unit, r.cs, TRUE)>>)

\* Node::exec, Scope arm
ExecScope(n, cs, at) ==
    ScopeExit(cs, at, exec(n.kids[1], ScopedContext_new(cs), at \o <<1>>))

\* Node::exec, Array arm
ArrayOf(all) ==
    IF all.panic THEN Res(Panic, all.cs, all.log)
    ELSE Res(from_vec(all.ds), all.cs, all.log)

ExecArray(n, cs, at) == ArrayOf(ExecFrom(n.kids, 1, cs, at))

\* Node::exec, Map arm: the loop over the entries, from entry i on; the first
\* Err returns.
RECURSIVE MapFrom(_, _, _, _, _)
MapStep(n, i, map, at, r) ==
    IF Failed(r) THEN r
    ELSE After(r.log, MapFrom(n, i + 1, MapInsert(map, n.keys[i], r.d), r.cs, at))

MapFrom(n, i, map, cs, at) ==
    IF i > Len(n.kids) THEN Res(MapD(map), cs, <<>>)
    ELSE MapStep(n, i, map, at, exec(n.kids[i], cs, at \o <<i>>))

\* ExecMap with every entry evaluated and the last Err returned.
ExecMapLastErr(n, cs, at) ==
    LET all == ExecFrom(n.kids, 1, cs, at)
        errs == {c \in 1..Len(all.ds) : IsErr(all.ds[c])}
    IN IF all.panic THEN Res(Panic, all.cs, all.log)
       ELSE IF errs # {}
         THEN Res(all.ds[CHOOSE c \in errs : \A c2 \in errs : c2 <= c], all.cs, all.log)
       ELSE Res(MapD([c \in 1..Len(all.ds) |-> [key |-> n.keys[c], value |-> all.ds[c]]]),
                all.cs, all.log)

\* Node::exec, Map arm
ExecMap(n, cs, at) == MapFrom(n, 1, <<>>, cs, at)

(***************************************************************************)
(* The operations.                                                         *)
(***************************************************************************)
\* number!: the i64 of a numeric value.
IsNumber(d) == d.k = "Int"

\* simple_pipe!: both operands are evaluated, then unwrapped left to right.
\* ok tells that both are values; d is the Err (or the panic) otherwise.
PipeBoth(l, r) ==
    [ok |-> ~IsPanic(r.d) /\ ~IsErr(l.d) /\ ~IsErr(r.d),
     d |-> IF IsPanic(r.d) THEN r.d
           ELSE IF IsErr(l.d) THEN l.d
           ELSE IF IsErr(r.d) THEN r.d
           ELSE Unit,
     l |-> l.d, r |-> r.d, cs |-> r.cs, log |-> l.log \o r.log]

PipeRight(right, at, l) ==
    IF IsPanic(l.d)
      THEN [ok |-> FALSE, d |-> l.d, l |-> Unit, r |-> Unit, cs |-> l.cs, log |-> l.log]
      ELSE PipeBoth(l, exec(right, l.cs, at \o <<2>>))

simple_pipe(cs, left, right, at) == PipeRight(right, at, exec(left, cs, at \o <<1>>))

AddOf(o) ==
    IF ~o.ok THEN Res(o.d, o.cs, o.log)
    ELSE IF IsNumber(o.l) /\ IsNumber(o.r) THEN Res(IntD(o.l.v + o.r.v), o.cs, o.log)
    ELSE Res(RenderFailure("Math operations require numeric types"), o.cs, o.log)

add(cs, left, right, at) == AddOf(simple_pipe(cs, left, right, at))

EqualsOf(o) ==
    IF ~o.ok THEN Res(o.d, o.cs, o.log)
    ELSE Res(BoolD(o.l = o.r), o.cs, o.log)

equals(cs, left, right, at) == EqualsOf(simple_pipe(cs, left, right, at))

\* if_then: the match on the condition's value c.
IfThenMatch(p, n, at, c) ==
    IF IsPanic(c.d) THEN c
    ELSE IF c.d = BoolD(TRUE) THEN After(c.log, exec(p, c.cs, at \o <<2>>))
    ELSE IF c.d = BoolD(FALSE) THEN After(c.log, exec(n, c.cs, at \o <<3>>))
    ELSE IF IsErr(c.d) THEN c
    ELSE Res(RenderFailure("If condition must evaluate to boolean!"), c.cs, c.log)

\* if_then with both branches evaluated before the condition is looked at.
if_thenEager(cs, cnd, p, n, at) ==
    LET c == exec(cnd, cs, at \o <<1>>)
        rp == exec(p, c.cs, at \o <<2>>)
        rn == exec(n, rp.cs, at \o <<3>>)
        log == c.log \o rp.log \o rn.log
    IN IF c.d = BoolD(TRUE) THEN Res(rp.d, rn.cs, log)
       ELSE IF c.d = BoolD(FALSE) THEN Res(rn.d, rn.cs, log)
       ELSE IF IsErr(c.d) THEN Res(c.d, rn.cs, log)
       ELSE Res(RenderFailure("If condition must evaluate to boolean!"), rn.cs, log)

if_then(cs, cnd, p, n, at) == IfThenMatch(p, n, at, exec(cnd, cs, at \o <<1>>))

\* concat: the renderings of the children from child i on, collected into a
\* Result: the first Err ends the iteration.
RECURSIVE ConcatFrom(_, _, _, _)
ConcatJoin(r, rest) ==
    [ok |-> rest.ok, ss |-> <<r.d.v>> \o rest.ss, d |-> rest.d,
     cs |-> rest.cs, log |-> r.log \o rest.log]

ConcatStep(input, i, at, r) ==
    IF Failed(r) THEN [ok |-> FALSE, ss |-> <<>>, d |-> r.d, cs |-> r.cs, log |-> r.log]
    ELSE ConcatJoin(r, ConcatFrom(input, i + 1, r.cs, at))

ConcatFrom(input, i, cs, at) ==
    IF i > Len(input) THEN [ok |-> TRUE, ss |-> <<>>, d |-> Unit, cs |-> cs, log |-> <<>>]
    ELSE ConcatStep(input, i, at, render(input[i], cs, at \o <<i>>))

\* concat: the fold of the collected strings, or the Err.
ConcatFold(results) ==
    IF results.ok THEN Res(StrD(JoinStr(results.ss, "")), results.cs, results.log)
    ELSE Res(results.d, results.cs, results.log)

concat(cs, input, at) == ConcatFold(ConcatFrom(input, 1, cs, at))

\* for_loop, the body of the Seq and Map arms: bind items[i], run the body,
\* push its rendering on the result; the first failure returns.
RECURSIVE LoopFrom(_, _, _, _, _, _, _)
LoopPush(set_path_, items, i, body, result, at, ev, r) ==
    IF Failed(r) THEN Res(r.d, r.cs, ev \o r.log)
    ELSE After(ev \o r.log,
               LoopFrom(set_path_, items, i + 1, body, result \o to_string(r.d), r.cs, at))

LoopBind(set_path_, items, i, body, result, cs, at, w) ==
    IF ~w.ok THEN Res(check(w), cs, <<SetEv(at, set_path_, items[i], w)>>)
    ELSE LoopPush(set_path_, items, i, body, result, at,
                  <<SetEv(at, set_path_, items[i], w)>>, exec(body, w.cs, at \o <<3>>))

LoopFrom(set_path_, items, i, body, result, cs, at) ==
    IF i > Len(items) THEN Res(StrD(result), cs, <<>>)
    ELSE LoopBind(set_path_, items, i, body, result, cs, at,
                  set_path(cs, set_path_, items[i]))

\* The record a loop over a Map binds for one entry.
Entry(e) == MapD(<<[key |-> StrD("key"), value |-> e.key],
                   [key |-> StrD("value"), value |-> e.value]>>)

\* ForSeqArm with the elements bound last to first.
ForSeqArmReversed(keys, items, body, cs, at) ==
    LoopFrom(keys, [k \in 1..Len(items) |-> items[Len(items) + 1 - k]], 1, body, "", cs, at)

\* ForSeqArm with the context put back as it was when an iteration fails.
ForSeqArmRollback(keys, items, body, cs, at) ==
    LET r == LoopFrom(keys, items, 1, body, "", cs, at)
    IN IF IsErr(r.d) THEN Res(r.d, cs, r.log) ELSE r

\* for_loop, the (Value, Seq) arm
ForSeqArm(keys, items, body, cs, at) == LoopFrom(keys, items, 1, body, "", cs, at)

\* for_loop, the (Value, Map) arm
ForMapArm(keys, items, body, cs, at) ==
    LoopFrom(keys, [i \in 1..Len(items) |-> Entry(items[i])], 1, body, "", cs, at)

\* for_loop, the (Value, _) arm after its one write w.
ScalarBind(keys, array, body, cs, at, w) ==
    IF ~w.ok THEN Res(check(w), cs, <<SetEv(at, keys, array, w)>>)
    ELSE After(<<SetEv(at, keys, array, w)>>, exec(body, w.cs, at \o <<3>>))

\* ForScalarArm with the body's result rendered, as the other arms do.
ForScalarArmRendered(keys, array, body, cs, at) ==
    LET w == set_path(cs, keys, array)
        ev == <<SetEv(at, keys, array, w)>>
    IN IF ~w.ok THEN Res(check(w), cs, ev)
       ELSE LET r == exec(body, w.cs, at \o <<3>>)
            IN IF IsPanic(r.d) \/ IsErr(r.d) THEN Res(r.d, r.cs, ev \o r.log)
               ELSE Res(StrD(to_string(r.d)), r.cs, ev \o r.log)

\* for_loop, the (Value, _) arm: the whole value is bound once.
ForScalarArm(keys, array, body, cs, at) ==
    ScalarBind(keys, array, body, cs, at, set_path(cs, keys, array))

\* for_loop: the match on the binding node and the iterable's value a.
ForLoopMatch(val_name, body, at, a) ==
    IF Failed(a) THEN a
    ELSE IF val_name.tag # "Value"
      THEN Res(RenderFailure("Unexpected render failure in for loop"), a.cs, a.log)
    ELSE IF a.d.k = "Seq"
      THEN After(a.log, ForSeqArm(PathKeys(val_name.path), a.d.v, body, a.cs, at))
    ELSE IF a.d.k = "Map"
      THEN After(a.log, ForMapArm(PathKeys(val_name.path), a.d.v, body, a.cs, at))
    ELSE After(a.log, ForScalarArm(PathKeys(val_name.path), a.d, body, a.cs, at))

for_loop(cs, val_name, array_path, body, at) ==
    ForLoopMatch(val_name, body, at, exec(array_path, cs, at \o <<2>>))

\* set: the write w of the value val under keys, after the steps in log.
SetWrite(at, keys, val, log, w) ==
    Res(check(w), w.cs, log \o <<SetEv(at, keys, val.d, w)>>)

\* set, the (eval, Ok) arm after lhs evaluated to path.
SetKey(at, val, path) ==
    IF Failed(path) THEN Res(path.d, path.cs, val.log \o path.log)
    ELSE SetWrite(at, <<path.d>>, val, val.log \o path.log,
                  set_path(path.cs, <<path.d>>, val.d))

\* set: the match on lhs and the value val of rhs.
SetMatch(left, at, val) ==
    IF Failed(val) THEN val
    ELSE IF left.tag = "Value"
      THEN SetWrite(at, PathKeys(left.path), val, val.log,
                    set_path(val.cs, PathKeys(left.path), val.d))
    ELSE SetKey(at, val, exec(left, val.cs, at \o <<1>>))

\* set with a lhs that is no Value node evaluated before rhs.
setLhsFirst(cs, left, right, at) ==
    LET path == IF left.tag = "Value" THEN Res(Unit, cs, <<>>)
                ELSE exec(left, cs, at \o <<1>>)
        val == exec(right, path.cs, at \o <<2>>)
        keys == IF left.tag = "Value" THEN PathKeys(left.path) ELSE <<path.d>>
    IN IF IsPanic(path.d) \/ IsErr(path.d) THEN path
       ELSE IF IsPanic(val.d) \/ IsErr(val.d) THEN Res(val.d, val.cs, path.log \o val.log)
       ELSE LET w == set_path(val.cs, keys, val.d)
            IN Res(check(w), w.cs, path.log \o val.log \o <<SetEv(at, keys, val.d, w)>>)

set(cs, left, right, at) == SetMatch(left, at, exec(right, cs, at \o <<2>>))

(***************************************************************************)
(* The executors: each indexes the children its shape takes; an index past *)
(* the end of the slice panics before anything is evaluated.               *)
(***************************************************************************)
PipedExecutor_exec(name, cs, nodes, at) ==
    IF Len(nodes) < 2 THEN Res(Panic, cs, <<>>)
    ELSE CASE name = "Set" -> set(cs, nodes[1], nodes[2], at)
           [] name = "Add" -> add(cs, nodes[1], nodes[2], at)
           [] name = "Equals" -> equals(cs, nodes[1], nodes[2], at)

ConditionalExecutor_exec(cs, nodes, at) ==
    IF Len(nodes) < 3 THEN Res(Panic, cs, <<>>)
    ELSE if_then(cs, nodes[1], nodes[2], nodes[3], at)

IndeterminateExecutor_exec(cs, nodes, at) == concat(cs, nodes, at)

LoopExecutor_exec(cs, nodes, at) ==
    IF Len(nodes) < 3 THEN Res(Panic, cs, <<>>)
    ELSE for_loop(cs, nodes[1], nodes[2], nodes[3], at)

\* Operation::exec and the dispatch of impl Executor for Executors
Operation_exec(n, cs, at) ==
    CASE ExecutorOf(n.name) = "Piped" -> PipedExecutor_exec(n.name, cs, n.kids, at)
      [] ExecutorOf(n.name) = "Conditional" -> ConditionalExecutor_exec(cs, n.kids, at)
      [] ExecutorOf(n.name) = "Indeterminate" -> IndeterminateExecutor_exec(cs, n.kids, at)
      [] ExecutorOf(n.name) = "Loop" -> LoopExecutor_exec(cs, n.kids, at)

\* The log of one call of Node::exec: the call, what the arm did, the return.
Logged(cs, at, r) ==
    Res(r.d, r.cs,
        <<Ev("eval", at, <<>>, Unit, cs, TRUE)>> \o r.log
          \o <<Ev("ret", at, <<>>, r.d, r.cs, TRUE)>>)

\* Node::exec: the arm of the node's variant.
ExecArm(n, cs, at) ==
    CASE n.tag = "Data" -> Res(n.d, cs, <<>>)
      [] n.tag = "Expr" -> ExecExpr(n, cs, at)
      [] n.tag = "Value" -> ExecValue(n, cs, at)
      [] n.tag = "Operation" -> Operation_exec(n, cs, at)
      [] n.tag = "Scope" -> ExecScope(n, cs, at)
      [] n.tag = "Array" -> ExecArray(n, cs, at)
      [] n.tag = "Map" -> ExecMap(n, cs, at)
      [] n.tag = "Empty" -> Res(empty, cs, <<>>)

exec(n, cs, at) == Logged(cs, at, ExecArm(n, cs, at))

\* Node::render: "" for Empty, else the string of the evaluated document.
RenderOf(r) == IF Failed(r) THEN r ELSE Res(StrD(to_string(r.d)), r.cs, r.log)

render(n, cs, at) ==
    IF n.tag = "Empty" THEN Res(StrD(""), cs, <<>>) ELSE RenderOf(exec(n, cs, at))

(***************************************************************************)
(* The inputs: the documents a root context is built over and the trees    *)
(* the parser hands to the evaluator.                                      *)
(***************************************************************************)
ObjKeys == <<"a", "b", "q", "w">>

Items == [i \in 1..MaxItems |-> IntD(i)]

RichDoc ==
    MapD(<<[key |-> StrD("flag"), value |-> BoolD(TRUE)],
           [key |-> StrD("items"), value |-> SeqD(Items)],
           [key |-> StrD("mixed"), value |-> SeqD(Items \o <<StrD("a")>>)],
           [key |-> StrD("n"), value |-> IntD(1)],
           [key |-> StrD("none"), value |-> SeqD(<<>>)],
           [key |-> StrD("obj"), value |-> MapD([i \in 1..MaxItems |->
                                      [key |-> StrD(ObjKeys[i]), value |-> IntD(i)]])],
           [key |-> StrD("x"), value |-> StrD("p")]>>)

Roots == {EmptyStore, RichDoc}

X == NValue(<<"x">>)
Put(path, d) == build("Set", <<NValue(path), NData(d)>>)
E1 == NData(ErrD("e1"))
E2 == NData(ErrD("e2"))

SetLhs == {X, NValue(<<"n", "z">>), NData(StrD("y")), E2, NValue(<<"missing">>),
           Put(<<"w">>, IntD(1))}
SetRhs == {NData(IntD(1)), E1, X, NValue(<<"items">>),
           NArray(<<Put(<<"w">>, IntD(1)), E1>>), Put(<<"w">>, IntD(2))}
SetNodes == {build("Set", <<l, r>>) : l \in SetLhs, r \in SetRhs}

Conds == {NData(BoolD(TRUE)), NData(BoolD(FALSE)), E1, NData(IntD(1)),
          NValue(<<"flag">>), NValue(<<"missing">>),
          build("Equals", <<X, NData(StrD("p"))>>)}
Positives == {NData(StrD("a")), Put(<<"x">>, IntD(1))}
Negatives == {NData(StrD("b")), Put(<<"w">>, IntD(1)), E2}
IfNodes ==
    {build("IfThen", <<c, p>>) : c \in Conds, p \in Positives}
      \cup {build("IfThen", <<c, p, n>>) : c \in Conds, p \in Positives, n \in Negatives}

Bindings == {X, NValue(<<"n", "z">>), NData(StrD("q"))}
Iterables == {NValue(<<"items">>), NValue(<<"none">>), NValue(<<"obj">>),
              NValue(<<"mixed">>), NValue(<<"n">>), NValue(<<"missing">>), E1,
              NArray(<<Put(<<"w">>, IntD(1)), NData(IntD(1))>>)}
Bodies == {X, build("Add", <<X, NData(IntD(1))>>),
           build("Concat", <<NValue(<<"x", "key">>), NData(StrD("=")),
                             NValue(<<"x", "value">>)>>),
           build("Set", <<NValue(<<"acc">>), X>>), E2, Put(<<"x">>, IntD(9))}
LoopNodes == {build("ForLoop", <<b, i, e>>) : b \in Bindings, i \in Iterables, e \in Bodies}

Kids == {NData(IntD(1)), E1, E2, Put(<<"x">>, IntD(1)), X,
         into_scope(Put(<<"x">>, IntD(1))),
         build("IfThen", <<NData(BoolD(TRUE)), NData(StrD("a"))>>), NEmpty}
KidSeqs == UNION {[1..k -> Kids] : k \in 0..MaxKids}
MapKeys(k) == [i \in 1..k |-> StrD(ObjKeys[i])]
Containers ==
    {NExpr(ks) : ks \in KidSeqs} \cup {NArray(ks) : ks \in KidSeqs}
      \cup {NMap(MapKeys(Len(ks)), ks) : ks \in KidSeqs}
      \cup {build("Concat", ks) : ks \in KidSeqs}

Plain == Kids \cup SetNodes \cup IfNodes \cup LoopNodes \cup Containers
Nodes == Plain \cup {into_scope(n) : n \in Plain}

NoRes == Res(Unit, <<>>, <<>>)

(***************************************************************************)
(* The state machine: a tree and a root context are built, then the tree   *)
(* is evaluated against the context, and a second time if the first call   *)
(* returned.                                                               *)
(***************************************************************************)
Init ==
    /\ node \in Nodes
    /\ ctx0 \in {<<root>> : root \in Roots}
    /\ ctx = ctx0
    /\ phase = "new"
    /\ res1 = NoRes
    /\ res2 = NoRes

\* The first call of node.exec(ctx).
Exec1 ==
    /\ phase = "new"
    /\ res1' = exec(node, ctx, <<>>)
    /\ ctx' = res1'.cs
    /\ phase' = IF IsPanic(res1'.d) THEN "panicked" ELSE "once"
    /\ UNCHANGED <<node, ctx0, res2>>

\* The second call of node.exec(ctx), on the context the first call left.
Exec2 ==
    /\ phase = "once"
    /\ res2' = exec(node, ctx, <<>>)
    /\ ctx' = res2'.cs
    /\ phase' = "twice"
    /\ UNCHANGED <<node, ctx0, res1>>

Next == Exec1 \/ Exec2

Spec == Init /\ [][Next]_vars

TypeOK == phase \in {"new", "once", "twice", "panicked"}

(***************************************************************************)
(* Reading the log of a call.                                              *)
(***************************************************************************)
\* The calls made so far: the first, and the second once it was made.
Runs == (IF phase # "new" THEN {res1} ELSE {})
          \cup (IF phase = "twice" THEN {res2} ELSE {})

\* The node at a place of the tree.
RECURSIVE NodeAt(_, _)
NodeAt(n, at) == IF Len(at) = 0 THEN n ELSE NodeAt(n.kids[at[1]], Tail(at))

\* The places in a log where a node's evaluation starts.
Calls(log) == {i \in 1..Len(log) : log[i].e = "eval"}

\* The return of the evaluation that starts at log[i].
RetOf(log, i) ==
    CHOOSE j \in (i+1)..Len(log) :
        /\ log[j].e = "ret" /\ log[j].at = log[i].at
        /\ \A m \in (i+1)..(j-1) : ~(log[m].e = "ret" /\ log[m].at = log[i].at)

\* In order, the places strictly between i and j of the events of kind e
\* done by the node at place at.
Idx(log, i, j, e, at) ==
    SelectSeq([m \in 1..(j-i-1) |-> i + m],
              LAMBDA m : log[m].e = e /\ log[m].at = at)

IsPrefix(a, b) == Len(a) <= Len(b) /\ SubSeq(b, 1, Len(a)) = a

IsOp(n, name) == n.tag = "Operation" /\ n.name = name

IsContainer(n) ==
    \/ n.tag \in {"Array", "Map"}
    \/ n.tag = "Expr" /\ Len(n.kids) >= 2
    \/ IsOp(n, "Concat")

\* Every Set and ForLoop of the tree lies inside a Scope.
RECURSIVE Confined(_)
Confined(n) ==
    \/ n.tag = "Scope"
    \/ /\ ~IsOp(n, "Set") /\ ~IsOp(n, "ForLoop")
       /\ \A c \in 1..Len(n.kids) : Confined(n.kids[c])

(***************************************************************************)
(* C1.  An IfThen built with two children (condition and positive branch), *)
(* which ConditionalExecutor::metadata allows, evaluates without failure:  *)
(* a condition that is Bool(false) gives Unit, one that is Bool(true) the  *)
(* positive branch's result.                                               *)
(***************************************************************************)
C1_IfThenTwoChildren ==
    \A r \in Runs : \A i \in Calls(r.log) :
        LET n == NodeAt(node, r.log[i].at)
            a == r.log[i].at
            j == RetOf(r.log, i)
            cnd == Idx(r.log, i, j, "ret", a \o <<1>>)
            pos == Idx(r.log, i, j, "ret", a \o <<2>>)
        IN (IsOp(n, "IfThen") /\ Len(n.kids) = 2
              /\ ConditionalMin <= Len(n.kids) /\ Len(n.kids) <= ConditionalMax)
             => /\ ~IsPanic(r.log[j].v)
                /\ Len(cnd) = 1
                /\ r.log[cnd[1]].v = BoolD(FALSE) => r.log[j].v = Unit
                /\ r.log[cnd[1]].v = BoolD(TRUE)
                     => Len(pos) = 1 /\ r.log[j].v = r.log[pos[1]].v

(***************************************************************************)
(* C2 as stated.  Two successive calls of N.exec(C) on the same context    *)
(* return equal Data, for every tree, those with a Set or a ForLoop        *)
(* outside a Scope included.                                               *)
(***************************************************************************)
C2_RepeatedExecEqual == phase = "twice" => res2.d = res1.d

(***************************************************************************)
(* C2 amended.  Two successive calls of N.exec(C) on the same context      *)
(* return equal Data when every Set and ForLoop of N is inside a Scope.    *)
(***************************************************************************)
C2_RepeatedExecEqualWhenScoped ==
    (phase = "twice" /\ Confined(node)) => res2.d = res1.d

\* A tree that writes inside a Scope was evaluated twice.
C2_Witness ==
    /\ phase = "twice" /\ Confined(node)
    /\ \E m \in 1..Len(res1.log) : res1.log[m].e = "set" /\ res1.log[m].ok
    /\ \E m \in 1..Len(res1.log) : res1.log[m].e = "get"
    /\ res2.d = res1.d

(***************************************************************************)
(* C8.  In an Array, Map, multi-child Expr or Concat, no child declared    *)
(* after the first child that evaluates to Err is evaluated.               *)
(***************************************************************************)
C8_NothingAfterFirstErr ==
    \A r \in Runs : \A i \in Calls(r.log) :
        LET n == NodeAt(node, r.log[i].at)
            a == r.log[i].at
            j == RetOf(r.log, i)
        IN IsContainer(n) =>
             \A c \in 1..Len(n.kids) :
                 LET rets == Idx(r.log, i, j, "ret", a \o <<c>>)
                 IN (Len(rets) > 0 /\ IsErr(r.log[rets[1]].v))
                      => \A c2 \in (c+1)..Len(n.kids) :
                             Idx(r.log, i, j, "eval", a \o <<c2>>) = <<>>

(***************************************************************************)
(* C3.  Scope(N) evaluated against a context C leaves C as it was, whether *)
(* it returns a value or an Err; a read inside N that follows a write      *)
(* inside N sees the written value.                                        *)
(***************************************************************************)
C3_ScopeIsolation ==
    \A r \in Runs :
        /\ \A i \in Calls(r.log) :
               NodeAt(node, r.log[i].at).tag = "Scope"
                 => r.log[RetOf(r.log, i)].cs = r.log[i].cs
        /\ \A i \in 1..Len(r.log) : \A j \in (i+1)..Len(r.log) :
               ( /\ r.log[i].e = "set" /\ r.log[i].ok /\ r.log[i].depth >= 2
                 /\ r.log[j].e = "get" /\ r.log[j].p = r.log[i].p
                 /\ r.log[j].depth >= r.log[i].depth
                 /\ \A m \in (i+1)..(j-1) :
                        /\ ~(r.log[m].e = "set" /\ r.log[m].ok)
                        /\ ~(r.log[m].e = "exit" /\ r.log[m].depth < r.log[i].depth) )
                 => r.log[j].v = r.log[i].v

\* A Scope that wrote a path its parent holds, read the written value back
\* and returned an Err: the parent still reads its own value.
C3_Witness ==
    \E r \in Runs : \E i, j, k \in 1..Len(r.log) :
        /\ i < j /\ j < k
        /\ r.log[i].e = "set" /\ r.log[i].ok /\ r.log[i].depth = 2
        /\ r.log[j].e = "get" /\ r.log[j].p = r.log[i].p /\ r.log[j].v = r.log[i].v
        /\ r.log[k].e = "exit" /\ r.log[k].depth = 1
        /\ get_path(r.log[k].cs, r.log[i].p) = StrD("p")
        /\ r.log[i].v # StrD("p")
        /\ IsErr(r.d)

(***************************************************************************)
(* C4.  An Expr of two or more children, an Array, a Map or a Concat that  *)
(* returns, one of whose children evaluated to Err, returns the Err of the *)
(* first such child in declaration order.                                  *)
(***************************************************************************)
C4_FirstErrPreserved ==
    \A r \in Runs : \A i \in Calls(r.log) :
        LET n == NodeAt(node, r.log[i].at)
            a == r.log[i].at
            j == RetOf(r.log, i)
            rets(c) == Idx(r.log, i, j, "ret", a \o <<c>>)
            errKids == {c \in 1..Len(n.kids) :
                           Len(rets(c)) > 0 /\ IsErr(r.log[rets(c)[1]].v)}
        IN (IsContainer(n) /\ ~IsPanic(r.log[j].v) /\ errKids # {})
             => LET first == CHOOSE c \in errKids : \A c2 \in errKids : c <= c2
                IN r.log[j].v = r.log[rets(first)[1]].v

\* A Map whose first entry evaluated to a value and whose second entry
\* evaluated to an Err returned that Err.
C4_Witness ==
    \E r \in Runs : \E i \in Calls(r.log) :
        LET n == NodeAt(node, r.log[i].at)
            a == r.log[i].at
            j == RetOf(r.log, i)
            r1 == Idx(r.log, i, j, "ret", a \o <<1>>)
            r2 == Idx(r.log, i, j, "ret", a \o <<2>>)
        IN /\ n.tag = "Map" /\ Len(n.kids) >= 2
           /\ Len(r1) = 1 /\ ~IsErr(r.log[r1[1]].v)
           /\ Len(r2) = 1 /\ IsErr(r.log[r2[1]].v)
           /\ r.log[j].v = r.log[r2[1]].v

(***************************************************************************)
(* C6.  An IfThen of three children evaluates at most one branch: the      *)
(* positive one on Bool(true), the negative one on Bool(false); an Err     *)
(* condition is the result and a condition of any other value gives the    *)
(* RenderFailure, in both cases with no branch evaluated and the context   *)
(* as the condition left it.                                               *)
(***************************************************************************)
C6_IfThenOneBranch ==
    \A r \in Runs : \A i \in Calls(r.log) :
        LET n == NodeAt(node, r.log[i].at)
            a == r.log[i].at
            j == RetOf(r.log, i)
            cnd == Idx(r.log, i, j, "ret", a \o <<1>>)
            pos == Idx(r.log, i, j, "eval", a \o <<2>>)
            neg == Idx(r.log, i, j, "eval", a \o <<3>>)
            c == r.log[cnd[1]].v
        IN (IsOp(n, "IfThen") /\ Len(n.kids) = 3)
             => /\ Len(cnd) = 1
                /\ Len(pos) + Len(neg) <= 1
                /\ c = BoolD(TRUE) => Len(pos) = 1 /\ neg = <<>>
                /\ c = BoolD(FALSE) => pos = <<>> /\ Len(neg) = 1
                /\ IsErr(c) => r.log[j].v = c
                /\ (c.k \notin {"Bool", "Err", "Panic"})
                     => r.log[j].v = RenderFailure("If condition must evaluate to boolean!")
                /\ c.k # "Bool"
                     => /\ pos = <<>> /\ neg = <<>>
                        /\ r.log[j].cs = r.log[cnd[1]].cs
                        /\ \A m \in (cnd[1]+1)..(j-1) : r.log[m].e # "set"

\* An IfThen whose condition was an integer and whose branches both write
\* returned the RenderFailure.
C6_Witness ==
    \E r \in Runs : \E i \in Calls(r.log) :
        LET n == NodeAt(node, r.log[i].at)
            j == RetOf(r.log, i)
        IN /\ IsOp(n, "IfThen") /\ Len(n.kids) = 3
           /\ IsOp(n.kids[2], "Set") /\ IsOp(n.kids[3], "Set")
           /\ n.kids[1] = NData(IntD(1))
           /\ r.log[j].v = RenderFailure("If condition must evaluate to boolean!")
           /\ r.log[j].cs = r.log[i].cs

KeyValue(e) == MapD(<<[key |-> StrD("key"), value |-> e.key],
                      [key |-> StrD("value"), value |-> e.value]>>)

\* Some write of the body of the loop called at log[i] (returning at log[j])
\* went, in the loop's own context, to the first key of the binding path.
BodyWritesBinding(log, i, j, keys) ==
    \E m \in (i+1)..(j-1) :
        /\ log[m].e = "set" /\ log[m].ok
        /\ IsPrefix(log[i].at \o <<3>>, log[m].at)
        /\ log[m].depth = log[i].depth
        /\ log[m].p[1] = keys[1]

(***************************************************************************)
(* C5.  A ForLoop with a Value binding over a Seq of n elements (a Map of  *)
(* n entries) in which no step fails evaluates the body n times, the k-th  *)
(* time after the k-th element (the k-th entry's {key, value} record) was  *)
(* written to the binding path and before the next write, and returns the  *)
(* concatenation of the n body results in that order; for n = 0 it returns *)
(* the empty string and writes nothing.                                    *)
(***************************************************************************)
C5_LoopIterations ==
    \A r \in Runs : \A i \in Calls(r.log) :
        LET n == NodeAt(node, r.log[i].at)
            a == r.log[i].at
            j == RetOf(r.log, i)
            keys == PathKeys(n.kids[1].path)
            itR == Idx(r.log, i, j, "ret", a \o <<2>>)
            iv == r.log[itR[1]].v
            sets == Idx(r.log, i, j, "set", a)
            bodyE == Idx(r.log, i, j, "eval", a \o <<3>>)
            bodyR == Idx(r.log, i, j, "ret", a \o <<3>>)
            bound(k) == IF iv.k = "Seq" THEN iv.v[k] ELSE KeyValue(iv.v[k])
        IN (/\ IsOp(n, "ForLoop") /\ Len(n.kids) = 3 /\ n.kids[1].tag = "Value"
            /\ Len(itR) = 1 /\ iv.k \in {"Seq", "Map"}
            /\ ~IsErr(r.log[j].v) /\ ~IsPanic(r.log[j].v))
             => /\ Len(sets) = Len(iv.v) /\ Len(bodyE) = Len(iv.v)
                /\ \A k \in 1..Len(iv.v) :
                       /\ r.log[sets[k]].ok
                       /\ r.log[sets[k]].p = keys
                       /\ r.log[sets[k]].v = bound(k)
                       /\ sets[k] < bodyE[k]
                       /\ k < Len(iv.v) => bodyR[k] < sets[k+1]
                /\ r.log[j].v =
                     StrD(JoinStr([k \in 1..Len(iv.v) |-> to_string(r.log[bodyR[k]].v)], ""))
                /\ Len(iv.v) = 0 => r.log[j].v = StrD("") /\ sets = <<>>

\* A loop over a Map of two or more entries ran its body once per entry and
\* returned a non-empty string.
C5_Witness ==
    \E r \in Runs : \E i \in Calls(r.log) :
        LET n == NodeAt(node, r.log[i].at)
            a == r.log[i].at
            j == RetOf(r.log, i)
            itR == Idx(r.log, i, j, "ret", a \o <<2>>)
            iv == r.log[itR[1]].v
            bodyE == Idx(r.log, i, j, "eval", a \o <<3>>)
        IN /\ IsOp(n, "ForLoop") /\ n.kids[1].tag = "Value"
           /\ Len(itR) = 1 /\ iv.k = "Map" /\ Len(iv.v) >= 2
           /\ Len(bodyE) = Len(iv.v)
           /\ r.log[j].v.k = "Str" /\ r.log[j].v.v # ""

(***************************************************************************)
(* C9.  A ForLoop with a Value binding whose iterable evaluates to a value *)
(* that is no Seq, Map or Err writes that value to the binding path once   *)
(* and evaluates the body once, the body's Data being the result; if the   *)
(* binding write fails, or the iterable evaluates to Err, the body is not  *)
(* evaluated and the Err is the result.                                    *)
(***************************************************************************)
C9_ScalarLoop ==
    \A r \in Runs : \A i \in Calls(r.log) :
        LET n == NodeAt(node, r.log[i].at)
            a == r.log[i].at
            j == RetOf(r.log, i)
            keys == PathKeys(n.kids[1].path)
            itR == Idx(r.log, i, j, "ret", a \o <<2>>)
            iv == r.log[itR[1]].v
            sets == Idx(r.log, i, j, "set", a)
            bodyE == Idx(r.log, i, j, "eval", a \o <<3>>)
            bodyR == Idx(r.log, i, j, "ret", a \o <<3>>)
        IN (IsOp(n, "ForLoop") /\ Len(n.kids) = 3 /\ n.kids[1].tag = "Value"
              /\ Len(itR) = 1)
             => /\ iv.k \notin {"Seq", "Map", "Err", "Panic"}
                     => /\ Len(sets) = 1
                        /\ r.log[sets[1]].p = keys /\ r.log[sets[1]].v = iv
                        /\ r.log[sets[1]].ok
                             => /\ Len(bodyE) = 1 /\ sets[1] < bodyE[1]
                                /\ r.log[j].v = r.log[bodyR[1]].v
                        /\ ~r.log[sets[1]].ok
                             => bodyE = <<>> /\ IsErr(r.log[j].v)
                /\ IsErr(iv) => bodyE = <<>> /\ sets = <<>> /\ r.log[j].v = iv

\* A loop over a missing path bound Unit once, ran its body once and
\* returned the body's Data, which is no string.
C9_Witness ==
    \E r \in Runs : \E i \in Calls(r.log) :
        LET n == NodeAt(node, r.log[i].at)
            a == r.log[i].at
            j == RetOf(r.log, i)
            itR == Idx(r.log, i, j, "ret", a \o <<2>>)
            sets == Idx(r.log, i, j, "set", a)
            bodyR == Idx(r.log, i, j, "ret", a \o <<3>>)
        IN /\ IsOp(n, "ForLoop") /\ n.kids[1].tag = "Value"
           /\ Len(itR) = 1 /\ r.log[itR[1]].v = Unit
           /\ Len(sets) = 1 /\ r.log[sets[1]].ok
           /\ Len(bodyR) = 1 /\ r.log[j].v = r.log[bodyR[1]].v
           /\ r.log[j].v.k # "Str"

(***************************************************************************)
(* C10.  A ForLoop leaves its binding in the context it ran on.  After a   *)
(* loop over a non-empty Seq whose body does not write the binding path,   *)
(* the binding path reads as the last element.  When the body fails in     *)
(* iteration k the result is that Err, not the output accumulated so far,  *)
(* and the context stays as the failing step left it, the binding path     *)
(* reading as the k-th element.                                            *)
(***************************************************************************)
C10_LoopLeavesBinding ==
    \A r \in Runs : \A i \in Calls(r.log) :
        LET n == NodeAt(node, r.log[i].at)
            a == r.log[i].at
            j == RetOf(r.log, i)
            keys == PathKeys(n.kids[1].path)
            itR == Idx(r.log, i, j, "ret", a \o <<2>>)
            iv == r.log[itR[1]].v
            bodyR == Idx(r.log, i, j, "ret", a \o <<3>>)
            last == r.log[bodyR[Len(bodyR)]].v
        IN (/\ IsOp(n, "ForLoop") /\ Len(n.kids) = 3 /\ n.kids[1].tag = "Value"
            /\ Len(itR) = 1 /\ iv.k = "Seq" /\ Len(iv.v) >= 1)
             => /\ (/\ ~IsErr(r.log[j].v) /\ ~IsPanic(r.log[j].v)
                    /\ ~BodyWritesBinding(r.log, i, j, keys))
                     => get_path(r.log[j].cs, keys) = iv.v[Len(iv.v)]
                /\ (Len(bodyR) >= 1 /\ IsErr(last))
                     => /\ r.log[j].v = last
                        /\ r.log[j].cs = r.log[j-1].cs
                        /\ ~BodyWritesBinding(r.log, i, j, keys)
                             => get_path(r.log[j].cs, keys) = iv.v[Len(bodyR)]

\* A loop run on the root context failed in its third or a later iteration:
\* the root context reads the element of that iteration at the binding path.
C10_Witness ==
    \E r \in Runs : \E i \in Calls(r.log) :
        LET n == NodeAt(node, r.log[i].at)
            a == r.log[i].at
            j == RetOf(r.log, i)
            keys == PathKeys(n.kids[1].path)
            itR == Idx(r.log, i, j, "ret", a \o <<2>>)
            iv == r.log[itR[1]].v
            bodyR == Idx(r.log, i, j, "ret", a \o <<3>>)
        IN /\ IsOp(n, "ForLoop") /\ n.kids[1].tag = "Value" /\ r.log[i].depth = 1
           /\ Len(itR) = 1 /\ iv.k = "Seq"
           /\ Len(bodyR) >= 3 /\ IsErr(r.log[bodyR[Len(bodyR)]].v)
           /\ IsErr(r.log[j].v)
           /\ get_path(r.log[j].cs, keys) = iv.v[Len(bodyR)]
           /\ get_path(r.log[i].cs, keys) # iv.v[Len(bodyR)]
====
